---- MODULE Spec2Model ----
(***************************************************************************)
(* External scanner of the Nix tree-sitter grammar (src/src/scanner.c).    *)
(*                                                                         *)
(* The scanner is called by the parsing engine with a lexer (the character *)
(* source) and the set of admissible token kinds.  The model keeps the     *)
(* Scanner record, the input text, the engine's position in it, the        *)
(* outcome of the last scan call and the engine's checkpoint buffer.       *)
(*                                                                         *)
(* Characters are one-character strings; positions are 1-based indices     *)
(* into the input, Len(input)+1 being the end of input.                    *)
(***************************************************************************)
EXTENDS Integers, Sequences, FiniteSets, TLC

VARIABLES
    input,        \* the text the lexer reads
    pos,          \* the engine's position: where the next token starts
    scanner,      \* the Scanner record (payload)
    result,       \* outcome of the last scan call
    buffer,       \* the bytes last written by serialize
    wire,         \* the checkpoint the engine hands to deserialize, with
                  \* the position and token counts it was taken at
    ops,          \* the engine's last operation, and the bytes loaded by a
                  \* deserialize that no scan call has followed yet
    emitted,      \* how many interpolation-start and interpolation-end
                  \* tokens the scan calls have produced so far
    call          \* the scan call in progress, when the call is followed
                  \* statement by statement: where it is, its lexer and locals

vars == <<input, pos, scanner, result, buffer, wire, ops, emitted, call>>

----------------------------------------------------------------------------
(* Bounds of the model *)

\* longest free-form input
MaxLen == 2
\* longest body of a plain string
MaxPlain == 3
\* longest body of an indented string or an interpolation
MaxBody == 4
\* cap of the depth counters
MaxDepth == 3
\* largest "small" counter byte of a checkpoint
MaxSmall == 2

\* longest text after the inner ${ of a nested interpolation
MaxNest == 3
\* longest text after the opening /* of a block comment
MaxComment == 6

----------------------------------------------------------------------------
(* Token kinds: enum TokenType *)

STRING_START            == "STRING_START"
STRING_CONTENT          == "STRING_CONTENT"
STRING_END              == "STRING_END"
INDENTED_STRING_START   == "INDENTED_STRING_START"
INDENTED_STRING_CONTENT == "INDENTED_STRING_CONTENT"
INDENTED_STRING_END     == "INDENTED_STRING_END"
INTERPOLATION_START     == "INTERPOLATION_START"
INTERPOLATION_END       == "INTERPOLATION_END"
ESCAPE_SEQUENCE         == "ESCAPE_SEQUENCE"
COMMENT                 == "COMMENT"

TokenType ==
    { STRING_START, STRING_CONTENT, STRING_END,
      INDENTED_STRING_START, INDENTED_STRING_CONTENT, INDENTED_STRING_END,
      INTERPOLATION_START, INTERPOLATION_END, ESCAPE_SEQUENCE, COMMENT }

\* result_symbol before any rule has set it
NoSymbol == "none"

----------------------------------------------------------------------------
(* Characters *)

\* lexer->lookahead at the end of input (the value 0 in the C code)
EOF == "EOF"

DQ  == "\""
SQ  == "'"
BSL == "\\"
NL  == "\n"

Whitespace == { " ", "\t", NL, "\r" }

HexDigit ==
    { "0", "1", "2", "3", "4", "5", "6", "7", "8", "9",
      "a", "b", "c", "d", "e", "f", "A", "B", "C", "D", "E", "F" }

SimpleEscape == { "n", "r", "t", BSL, DQ, SQ, "$" }

----------------------------------------------------------------------------
(* The lexer (TSLexer) during one scan call:                               *)
(*   cur   - index of the lookahead character                              *)
(*   start - start of the token (moved by skip)                            *)
(*   end   - position marked by mark_end, 0 while none is marked           *)

lookahead(in, L) == IF L.cur <= Len(in) THEN in[L.cur] ELSE EOF

advance(L) == [L EXCEPT !.cur = L.cur + 1]

skip(L) == [L EXCEPT !.cur = L.cur + 1, !.start = L.cur + 1]

mark_end(L) == [L EXCEPT !.end = L.cur]

\* the span the engine takes for a produced token: up to the marked end, or
\* up to the current position when mark_end was never called
TokenEnd(L) == IF L.end = 0 THEN L.cur ELSE L.end

TokenStart(L) == IF TokenEnd(L) < L.start THEN TokenEnd(L) ELSE L.start

----------------------------------------------------------------------------
(* scan_string_content: the loop at lines 40-60, has_content = hc *)

RECURSIVE string_content_loop(_, _, _)
string_content_loop(in, L, hc) ==
    LET c == lookahead(in, L) IN
    IF c = EOF THEN [ok |-> hc, L |-> L]
    ELSE IF c = DQ THEN [ok |-> hc, L |-> L]
    ELSE IF c = BSL THEN [ok |-> hc, L |-> L]
    ELSE IF c = "$" THEN
        LET L1 == advance(L) IN
        IF lookahead(in, L1) = "{"
        THEN [ok |-> hc, L |-> L1]
        ELSE string_content_loop(in, mark_end(L1), TRUE)
    ELSE string_content_loop(in, mark_end(advance(L)), TRUE)

scan_string_content(in, L) == string_content_loop(in, mark_end(L), FALSE)

(* scan_indented_string_content: the loop at lines 69-95 *)

\* a loop that takes the first ' for a possible end of the string
RECURSIVE indented_content_loop_first_quote(_, _, _, _)
indented_content_loop_first_quote(in, L, hc, quote_count) ==
    LET c == lookahead(in, L) IN
    IF c = EOF THEN [ok |-> hc, L |-> L]
    ELSE IF c = SQ THEN [ok |-> hc, L |-> advance(L)]
    ELSE IF c = "$" THEN
        LET L1 == advance(L) IN
        IF lookahead(in, L1) = "{"
        THEN [ok |-> hc, L |-> L1]
        ELSE indented_content_loop_first_quote(in, mark_end(L1), TRUE, 0)
    ELSE indented_content_loop_first_quote(in, mark_end(advance(L)), TRUE, 0)

RECURSIVE indented_content_loop(_, _, _, _)
indented_content_loop(in, L, hc, quote_count) ==
    LET c == lookahead(in, L) IN
    IF c = EOF THEN [ok |-> hc, L |-> L]
    ELSE IF c = SQ THEN
        LET L1 == advance(L) IN
        IF quote_count + 1 = 2
        THEN [ok |-> hc, L |-> L1]
        ELSE indented_content_loop(in, mark_end(L1), TRUE, quote_count + 1)
    ELSE IF c = "$" THEN
        LET L1 == advance(L) IN
        IF lookahead(in, L1) = "{"
        THEN [ok |-> hc, L |-> L1]
        ELSE indented_content_loop(in, mark_end(L1), TRUE, 0)
    ELSE indented_content_loop(in, mark_end(advance(L)), TRUE, 0)

scan_indented_string_content(in, L) ==
    indented_content_loop(in, mark_end(L), FALSE, 0)

(* scan_escape_sequence *)

RECURSIVE hex_digits(_, _, _)
hex_digits(in, L, i) ==
    IF i >= 2 THEN [ok |-> TRUE, L |-> L]
    ELSE IF lookahead(in, L) \in HexDigit
         THEN hex_digits(in, advance(L), i + 1)
         ELSE [ok |-> FALSE, L |-> L]

scan_escape_sequence(in, L) ==
    IF lookahead(in, L) # BSL THEN [ok |-> FALSE, L |-> L]
    ELSE LET L1 == advance(L)
             c  == lookahead(in, L1)
         IN IF c \in SimpleEscape THEN [ok |-> TRUE, L |-> advance(L1)]
            ELSE IF c = "x" THEN hex_digits(in, advance(L1), 0)
            ELSE [ok |-> FALSE, L |-> L1]

(* scan_comment *)

RECURSIVE line_comment_loop(_, _)
line_comment_loop(in, L) ==
    IF lookahead(in, L) # EOF /\ lookahead(in, L) # NL
    THEN line_comment_loop(in, advance(L))
    ELSE L

\* a block comment loop that does not count nested openers
RECURSIVE block_comment_loop_flat(_, _, _)
block_comment_loop_flat(in, L, depth) ==
    LET c == lookahead(in, L) IN
    IF ~(depth > 0 /\ c # EOF) THEN [ok |-> depth = 0, L |-> L]
    ELSE IF c = "*" THEN
        LET L1 == advance(L) IN
        IF lookahead(in, L1) = "/"
        THEN block_comment_loop_flat(in, advance(L1), depth - 1)
        ELSE block_comment_loop_flat(in, L1, depth)
    ELSE block_comment_loop_flat(in, advance(L), depth)

RECURSIVE block_comment_loop(_, _, _)
block_comment_loop(in, L, depth) ==
    LET c == lookahead(in, L) IN
    IF ~(depth > 0 /\ c # EOF) THEN [ok |-> depth = 0, L |-> L]
    ELSE IF c = "/" THEN
        LET L1 == advance(L) IN
        IF lookahead(in, L1) = "*"
        THEN block_comment_loop(in, advance(L1), depth + 1)
        ELSE block_comment_loop(in, L1, depth)
    ELSE IF c = "*" THEN
        LET L1 == advance(L) IN
        IF lookahead(in, L1) = "/"
        THEN block_comment_loop(in, advance(L1), depth - 1)
        ELSE block_comment_loop(in, L1, depth)
    ELSE block_comment_loop(in, advance(L), depth)

scan_comment(in, L) ==
    IF lookahead(in, L) = "#"
    THEN [ok |-> TRUE, L |-> line_comment_loop(in, advance(L))]
    ELSE IF lookahead(in, L) = "/" THEN
        LET L1 == advance(L) IN
        IF lookahead(in, L1) = "*"
        THEN block_comment_loop(in, advance(L1), 1)
        ELSE [ok |-> FALSE, L |-> L1]
    ELSE [ok |-> FALSE, L |-> L]

----------------------------------------------------------------------------
(* The Scanner record and its life cycle *)

\* tree_sitter_nix_external_scanner_create: calloc gives an all-zero record
tree_sitter_nix_external_scanner_create ==
    [ in_string           |-> FALSE,
      in_indented_string  |-> FALSE,
      interpolation_depth |-> 0,
      paren_depth         |-> 0,
      brace_depth         |-> 0 ]

\* Conversions of the C build.  A byte of the buffer is kept as its bit
\* pattern 0..255.  Storing an int or a bool in a char keeps the low 8 bits;
\* reading a char back widens it to int, sign-extended when char is signed.
IntToChar(x) == x % 256

BoolToChar(b) == IF b THEN 1 ELSE 0

CharToInt(b, signed) == IF signed /\ b >= 128 THEN b - 256 ELSE b

CharToBool(b) == b # 0

\* tree_sitter_nix_external_scanner_serialize: the bytes written; it
\* returns SerializedLength
SerializedLength == 5

\* a serialize that writes brace_depth before paren_depth
serialize_swapped(s) ==
    << BoolToChar(s.in_string),
       BoolToChar(s.in_indented_string),
       IntToChar(s.interpolation_depth),
       IntToChar(s.brace_depth),
       IntToChar(s.paren_depth) >>

tree_sitter_nix_external_scanner_serialize(s) ==
    << BoolToChar(s.in_string),
       BoolToChar(s.in_indented_string),
       IntToChar(s.interpolation_depth),
       IntToChar(s.paren_depth),
       IntToChar(s.brace_depth) >>

\* tree_sitter_nix_external_scanner_deserialize: the record after the call
tree_sitter_nix_external_scanner_deserialize(s, buf, length, signed) ==
    IF length >= 5
    THEN [ in_string           |-> CharToBool(buf[1]),
           in_indented_string  |-> CharToBool(buf[2]),
           interpolation_depth |-> CharToInt(buf[3], signed),
           paren_depth         |-> CharToInt(buf[4], signed),
           brace_depth         |-> CharToInt(buf[5], signed) ]
    ELSE s

----------------------------------------------------------------------------
(* tree_sitter_nix_external_scanner_scan, rule by rule.  Every rule yields  *)
(* the outcome of the call: whether a token is produced, result_symbol,    *)
(* the lexer and the Scanner record at the return.                         *)

Produced(sym, L, s) == [produced |-> TRUE, symbol |-> sym, L |-> L, s |-> s]

NotProduced(L, s) == [produced |-> FALSE, symbol |-> NoSymbol, L |-> L, s |-> s]

\* an interpolation end rule that also closes the interpolation, without a
\* token, at a } that does not bring brace_depth to 0
scan_interpolation_end_eager(s, in, L, valid) ==
    IF s.interpolation_depth > 0 /\ INTERPOLATION_END \in valid
    THEN IF lookahead(in, L) = "{"
         THEN NotProduced(advance(L),
                          [s EXCEPT !.brace_depth = s.brace_depth + 1])
         ELSE IF lookahead(in, L) = "}"
         THEN IF s.brace_depth - 1 = 0
              THEN Produced(INTERPOLATION_END, advance(L),
                            [s EXCEPT !.brace_depth = 0,
                                      !.interpolation_depth =
                                          s.interpolation_depth - 1])
              ELSE NotProduced(advance(L),
                               [s EXCEPT !.brace_depth = s.brace_depth - 1,
                                         !.interpolation_depth =
                                             s.interpolation_depth - 1])
         ELSE NotProduced(L, s)
    ELSE NotProduced(L, s)

\* lines 308-328: interpolation end and brace tracking
scan_interpolation_end(s, in, L, valid) ==
    IF s.interpolation_depth > 0 /\ INTERPOLATION_END \in valid
    THEN IF lookahead(in, L) = "{"
         THEN NotProduced(advance(L),
                          [s EXCEPT !.brace_depth = s.brace_depth + 1])
         ELSE IF lookahead(in, L) = "}"
         THEN IF s.brace_depth - 1 = 0
              THEN Produced(INTERPOLATION_END, advance(L),
                            [s EXCEPT !.brace_depth = 0,
                                      !.interpolation_depth =
                                          s.interpolation_depth - 1])
              ELSE NotProduced(advance(L),
                               [s EXCEPT !.brace_depth = s.brace_depth - 1])
         ELSE NotProduced(L, s)
    ELSE NotProduced(L, s)

\* lines 251-261 and 289-299: `${` opens an interpolation; the outcome when
\* the rule does not apply is the lexer to go on with
scan_interpolation_start(s, in, L, valid) ==
    IF INTERPOLATION_START \in valid /\ lookahead(in, L) = "$"
    THEN LET L1 == advance(L) IN
         IF lookahead(in, L1) = "{"
         THEN Produced(INTERPOLATION_START, advance(L1),
                       [s EXCEPT !.interpolation_depth =
                                     s.interpolation_depth + 1,
                                 !.brace_depth = 1])
         ELSE NotProduced(L1, s)
    ELSE NotProduced(L, s)

\* lines 276-306: inside an indented string
scan_in_indented_string(s, in, L, valid) ==
    IF s.in_indented_string
    THEN LET closing == INDENTED_STRING_END \in valid /\ lookahead(in, L) = SQ
             L1 == IF closing THEN advance(L) ELSE L
         IN IF closing /\ lookahead(in, L1) = SQ
            THEN Produced(INDENTED_STRING_END, advance(L1),
                          [s EXCEPT !.in_indented_string = FALSE])
            ELSE LET i == scan_interpolation_start(s, in, L1, valid) IN
                 IF i.produced THEN i
                 ELSE LET c == IF INDENTED_STRING_CONTENT \in valid
                               THEN scan_indented_string_content(in, i.L)
                               ELSE [ok |-> FALSE, L |-> i.L]
                      IN IF c.ok
                         THEN Produced(INDENTED_STRING_CONTENT, c.L, s)
                         ELSE scan_interpolation_end(s, in, c.L, valid)
    ELSE scan_interpolation_end(s, in, L, valid)

\* lines 241-274: inside a regular string
scan_in_string(s, in, L, valid) ==
    IF s.in_string
    THEN IF STRING_END \in valid /\ lookahead(in, L) = DQ
         THEN Produced(STRING_END, advance(L), [s EXCEPT !.in_string = FALSE])
         ELSE LET i == scan_interpolation_start(s, in, L, valid) IN
              IF i.produced THEN i
              ELSE LET e == IF ESCAPE_SEQUENCE \in valid
                            THEN scan_escape_sequence(in, i.L)
                            ELSE [ok |-> FALSE, L |-> i.L]
                   IN IF e.ok THEN Produced(ESCAPE_SEQUENCE, e.L, s)
                      ELSE LET c == IF STRING_CONTENT \in valid
                                    THEN scan_string_content(in, e.L)
                                    ELSE [ok |-> FALSE, L |-> e.L]
                           IN IF c.ok THEN Produced(STRING_CONTENT, c.L, s)
                              ELSE scan_in_indented_string(s, in, c.L, valid)
    ELSE scan_in_indented_string(s, in, L, valid)

\* a string start that does not ask whether STRING_START is admissible
scan_string_start_unchecked(s, in, L, valid) ==
    IF ~s.in_string /\ ~s.in_indented_string /\ lookahead(in, L) = DQ
    THEN Produced(STRING_START, advance(L), [s EXCEPT !.in_string = TRUE])
    ELSE scan_in_string(s, in, L, valid)

\* a string start that does not ask whether the scanner is inside a string
scan_string_start_unguarded(s, in, L, valid) ==
    IF STRING_START \in valid /\ lookahead(in, L) = DQ
    THEN Produced(STRING_START, advance(L), [s EXCEPT !.in_string = TRUE])
    ELSE IF INDENTED_STRING_START \in valid /\ lookahead(in, L) = SQ
    THEN LET L1 == advance(L) IN
         IF lookahead(in, L1) = SQ
         THEN Produced(INDENTED_STRING_START, advance(L1),
                       [s EXCEPT !.in_indented_string = TRUE])
         ELSE scan_in_string(s, in, L1, valid)
    ELSE scan_in_string(s, in, L, valid)

\* lines 219-239: entering a string or an indented string
scan_string_start(s, in, L, valid) ==
    IF ~s.in_string /\ ~s.in_indented_string
    THEN IF STRING_START \in valid /\ lookahead(in, L) = DQ
         THEN Produced(STRING_START, advance(L), [s EXCEPT !.in_string = TRUE])
         ELSE IF INDENTED_STRING_START \in valid /\ lookahead(in, L) = SQ
         THEN LET L1 == advance(L) IN
              IF lookahead(in, L1) = SQ
              THEN Produced(INDENTED_STRING_START, advance(L1),
                            [s EXCEPT !.in_indented_string = TRUE])
              ELSE scan_in_string(s, in, L1, valid)
         ELSE scan_in_string(s, in, L, valid)
    ELSE scan_in_string(s, in, L, valid)

\* lines 213-217: comments
scan_comment_rule(s, in, L, valid) ==
    LET c == IF COMMENT \in valid THEN scan_comment(in, L)
                                  ELSE [ok |-> FALSE, L |-> L]
    IN IF c.ok THEN Produced(COMMENT, c.L, s)
       ELSE scan_string_start(s, in, c.L, valid)

\* lines 205-211: whitespace outside strings is skipped
RECURSIVE skip_whitespace(_, _)
skip_whitespace(in, L) ==
    IF lookahead(in, L) \in Whitespace
    THEN skip_whitespace(in, skip(L))
    ELSE L

\* the whole call, the lexer starting at position p
tree_sitter_nix_external_scanner_scan(s, in, p, valid) ==
    LET L0 == [cur |-> p, start |-> p, end |-> 0]
        L1 == IF ~s.in_string /\ ~s.in_indented_string
              THEN skip_whitespace(in, L0)
              ELSE L0
    IN scan_comment_rule(s, in, L1, valid)

----------------------------------------------------------------------------
(* The parsing engine around the scanner *)

\* The entries of valid_symbols a scan call can read with the Scanner record
\* s: COMMENT always (line 214), the start kinds outside strings (222, 230),
\* the in-string kinds inside a string (244-270) or an indented string
\* (279-302), INTERPOLATION_END behind interpolation_depth > 0 (309).  An
\* entry the call never reads cannot change its outcome.
Consulted(s) ==
    {COMMENT}
    \cup (IF ~s.in_string /\ ~s.in_indented_string
          THEN {STRING_START, INDENTED_STRING_START} ELSE {})
    \cup (IF s.in_string
          THEN {STRING_END, INTERPOLATION_START, ESCAPE_SEQUENCE, STRING_CONTENT}
          ELSE {})
    \cup (IF s.in_indented_string
          THEN {INDENTED_STRING_END, INTERPOLATION_START, INDENTED_STRING_CONTENT}
          ELSE {})
    \cup (IF s.interpolation_depth > 0 THEN {INTERPOLATION_END} ELSE {})

\* the admissible sets the engine may pass with the Scanner record s
AdmissibleSets(s) == SUBSET Consulted(s)

\* all strings over the alphabet A of length at most n
RECURSIVE Strings(_, _)
Strings(A, n) ==
    IF n = 0 THEN { <<>> }
    ELSE LET shorter == Strings(A, n - 1)
         IN shorter \cup { Append(w, c) : w \in shorter, c \in A }

Alphabet == { DQ, SQ, "$", "{", "}", BSL, "a", NL, "#", "/", "*" }

Openers == { <<>>, <<DQ>>, <<SQ, SQ>> }

\* free-form inputs: an optional string opener and any short text
Inputs == { o \o w : o \in Openers, w \in Strings(Alphabet, MaxLen) }

\* outcome of a call as the engine sees it: the token's kind and span
NoCall == [produced |-> FALSE, symbol |-> NoSymbol, start |-> 0, end |-> 0]

Outcome(r, p) ==
    IF r.produced
    THEN [produced |-> TRUE, symbol |-> r.symbol,
          start |-> TokenStart(r.L), end |-> TokenEnd(r.L)]
    ELSE [produced |-> FALSE, symbol |-> NoSymbol, start |-> p, end |-> p]

ZeroBuffer == << 0, 0, 0, 0, 0 >>

\* no scan call is in progress
Idle == [pc |-> "idle", valid |-> {}, L |-> [cur |-> 0, start |-> 0, end |-> 0],
         s |-> tree_sitter_nix_external_scanner_create,
         depth |-> 0, has_content |-> FALSE, quote_count |-> 0, i |-> 0,
         produced |-> FALSE, symbol |-> NoSymbol]

\* the engine's count of the interpolation tokens it was handed
NoTokens == [starts |-> 0, ends |-> 0]

Count(e, o) ==
    IF o.produced /\ o.symbol = INTERPOLATION_START
    THEN [e EXCEPT !.starts = e.starts + 1]
    ELSE IF o.produced /\ o.symbol = INTERPOLATION_END
    THEN [e EXCEPT !.ends = e.ends + 1]
    ELSE e

InitWith(in) ==
    /\ input = in
    /\ pos = 1
    /\ scanner = tree_sitter_nix_external_scanner_create
    /\ result = NoCall
    /\ buffer = ZeroBuffer
    /\ wire = [bytes |-> ZeroBuffer, pos |-> 1, emitted |-> NoTokens]
    /\ ops = [last |-> "create", loaded |-> <<>>]
    /\ emitted = NoTokens
    /\ call = Idle

Init == \E in \in Inputs : InitWith(in)

\* the depth counters stay within the model's cap
WithinCap(s) ==
    /\ s.interpolation_depth < MaxDepth
    /\ s.brace_depth < MaxDepth
    /\ s.brace_depth > -MaxDepth

\* one scan call with the admissible set valid.  A produced token moves the
\* engine to the token's end; after a declined call the engine resets the
\* lexer to where the call started.  The Scanner record is mutated in place.
Scan(valid) ==
    /\ WithinCap(scanner)
    /\ pos <= Len(input) + 1
    /\ LET r == tree_sitter_nix_external_scanner_scan(scanner, input, pos, valid)
       IN /\ scanner' = r.s
          /\ result' = Outcome(r, pos)
          /\ pos' = IF r.produced THEN TokenEnd(r.L) ELSE pos
          /\ emitted' = Count(emitted, Outcome(r, pos))
    /\ ops' = [last |-> "scan", loaded |-> <<>>]
    /\ UNCHANGED <<input, buffer, wire, call>>

\* after a declined call the grammar's own lexer takes the next character
GrammarStep ==
    /\ ops.last = "scan"
    /\ ~result.produced
    /\ pos <= Len(input)
    /\ pos' = pos + 1
    /\ ops' = [last |-> "grammar", loaded |-> <<>>]
    /\ UNCHANGED <<input, scanner, result, buffer, wire, emitted, call>>

\* the engine takes a checkpoint
Serialize ==
    /\ buffer' = tree_sitter_nix_external_scanner_serialize(scanner)
    /\ wire' = [bytes |-> buffer', pos |-> pos, emitted |-> emitted]
    /\ ops' = [ops EXCEPT !.last = "serialize"]
    /\ UNCHANGED <<input, pos, scanner, result, emitted, call>>

\* the engine restores a checkpoint, handing over length bytes of it; whether
\* plain char is signed is the build's choice
Deserialize(length, signed) ==
    /\ scanner' = tree_sitter_nix_external_scanner_deserialize(
                      scanner, wire.bytes, length, signed)
    /\ pos' = IF length >= SerializedLength THEN wire.pos ELSE pos
    /\ emitted' = IF length >= SerializedLength THEN wire.emitted ELSE emitted
    /\ result' = NoCall
    /\ ops' = [last |-> "deserialize",
               loaded |-> SubSeq(wire.bytes, 1, length)]
    /\ UNCHANGED <<input, buffer, wire, call>>

ScanCall == \E valid \in AdmissibleSets(scanner) : Scan(valid)

\* a scan call of an engine for which the kinds of required are admissible
\* wherever the call can read them
ScanWith(required) ==
    \E valid \in AdmissibleSets(scanner) :
        /\ required \cap Consulted(scanner) \subseteq valid
        /\ Scan(valid)

Restore == \E length \in 0..SerializedLength, signed \in BOOLEAN :
               Deserialize(length, signed)

\* scanning free-form inputs
Next == ScanCall \/ GrammarStep

Spec == Init /\ [][Next]_vars

\* scanning a plain string: an opening quote and a body of ordinary
\* characters, `$`, `{`, backslashes, escape letters, hex digits and quotes
PlainAlphabet == { DQ, BSL, "$", "{", "n", "x", "a" }

PlainInputs == { <<DQ>> \o w : w \in Strings(PlainAlphabet, MaxPlain) }

InitPlain == \E in \in PlainInputs : InitWith(in)

SpecPlain == InitPlain /\ [][Next]_vars

\* scanning an indented string: the opening '', any body and the closing ''
IndentedAlphabet == { SQ, "$", "{", "a", "#" }

IndentedInputs ==
    { <<SQ, SQ>> \o w \o <<SQ, SQ>> : w \in Strings(IndentedAlphabet, MaxBody) }

InitIndented == \E in \in IndentedInputs : InitWith(in)

SpecIndented == InitIndented /\ [][Next]_vars

\* scanning an interpolation inside a plain string: the opening "${ and a body
InterpAlphabet == { "{", "}", "a" }

InterpInputs == { <<DQ, "$", "{">> \o w : w \in Strings(InterpAlphabet, MaxBody) }

InitInterp == \E in \in InterpInputs : InitWith(in)

\* A well-formed plain string without interpolation: from position i up to
\* the closing quote at q the body is made of ordinary characters, `$` not
\* followed by `{`, and recognized escapes.
RECURSIVE PlainBody(_, _, _)
PlainBody(in, i, q) ==
    IF i >= q THEN i = q
    ELSE IF in[i] = DQ THEN FALSE
    ELSE IF in[i] = BSL THEN
        IF in[i + 1] \in SimpleEscape THEN PlainBody(in, i + 2, q)
        ELSE /\ in[i + 1] = "x"
             /\ i + 3 < q
             /\ in[i + 2] \in HexDigit
             /\ in[i + 3] \in HexDigit
             /\ PlainBody(in, i + 4, q)
    ELSE IF in[i] = "$" THEN in[i + 1] # "{" /\ PlainBody(in, i + 1, q)
    ELSE PlainBody(in, i + 1, q)

WellFormedPlain(in) ==
    /\ Len(in) >= 2
    /\ in[1] = DQ
    /\ in[Len(in)] = DQ
    /\ PlainBody(in, 2, Len(in))

PlainStrings ==
    { in \in { <<DQ>> \o w \o <<DQ>> : w \in Strings(PlainAlphabet, MaxPlain) } :
          WellFormedPlain(in) }

InitPlainString == \E in \in PlainStrings : InitWith(in)

PlainKinds == { STRING_START, STRING_CONTENT, ESCAPE_SEQUENCE, STRING_END }

NextPlainString == pos <= Len(input) /\ ScanWith(PlainKinds)

\* repeated scan calls over a well-formed plain string, the string kinds
\* admissible in every call
SpecPlainString == InitPlainString /\ [][NextPlainString]_vars

\* An indented string ''body'': the body is not empty, holds no two
\* consecutive ' and no ${, and has no ' next to the delimiters
IndentedBody(w) ==
    /\ Len(w) >= 1
    /\ w[1] # SQ
    /\ w[Len(w)] # SQ
    /\ \A i \in 1..(Len(w) - 1) :
           /\ ~(w[i] = SQ /\ w[i + 1] = SQ)
           /\ ~(w[i] = "$" /\ w[i + 1] = "{")

IndentedStrings ==
    { <<SQ, SQ>> \o w \o <<SQ, SQ>> :
          w \in { b \in Strings(IndentedAlphabet, MaxBody) : IndentedBody(b) } }

InitIndentedString == \E in \in IndentedStrings : InitWith(in)

IndentedKinds ==
    { INDENTED_STRING_START, INDENTED_STRING_CONTENT, INDENTED_STRING_END }

NextIndentedString ==
    pos <= Len(input) /\ Scan(IndentedKinds \cap Consulted(scanner))

\* repeated scan calls over an indented string, the indented-string kinds
\* (and no others) admissible in every call
SpecIndentedString == InitIndentedString /\ [][NextIndentedString]_vars

\* The engine over an interpolation: the string start, then the interpolation
\* start, and interpolation-end alone while an interpolation is open; a
\* declined call is retried or handed to the grammar
InterpolationKinds(s) ==
    IF s.interpolation_depth > 0 THEN {INTERPOLATION_END}
    ELSE IF s.in_string THEN {INTERPOLATION_START}
    ELSE {STRING_START}

InterpolationCall == Scan(InterpolationKinds(scanner))

NextInterpolation == InterpolationCall \/ GrammarStep

SpecInterpolation == InitInterp /\ [][NextInterpolation]_vars

\* the outcome of a call does not depend on the entries it never reads
ConsultedExact ==
    \A v \in SUBSET TokenType :
        tree_sitter_nix_external_scanner_scan(scanner, input, pos, v)
        = tree_sitter_nix_external_scanner_scan(
              scanner, input, pos, v \cap Consulted(scanner))

\* scanning with checkpoints taken and restored, over inputs that open
\* strings and interpolations
BraceAlphabet == { "$", "{", "}" }

PersistInputs == { o \o w : o \in Openers, w \in Strings(BraceAlphabet, MaxLen) }

InitPersist == \E in \in PersistInputs : InitWith(in)

NextPersist == ScanCall \/ GrammarStep \/ Serialize \/ Restore

SpecPersist == InitPersist /\ [][NextPersist]_vars

\* the checkpoint codec alone: the engine holds any 5 bytes
ByteValues == (0..MaxSmall) \cup { 127, 128, 255 }

InitCodec ==
    /\ input = <<>>
    /\ pos = 1
    /\ scanner = tree_sitter_nix_external_scanner_create
    /\ result = NoCall
    /\ buffer = ZeroBuffer
    /\ wire \in [bytes : [1..SerializedLength -> ByteValues], pos : {1},
                emitted : {NoTokens}]
    /\ ops = [last |-> "create", loaded |-> <<>>]
    /\ emitted = NoTokens
    /\ call = Idle

NextCodec == Serialize \/ Restore

SpecCodec == InitCodec /\ [][NextCodec]_vars

\* checkpoints of any Scanner record whose counters fit in one byte: the
\* flags not both set, the counters small or at the edges of the signed and
\* the unsigned char range
ByteSizedScanners ==
    { s \in [ in_string : BOOLEAN, in_indented_string : BOOLEAN,
              interpolation_depth : ByteValues, paren_depth : ByteValues,
              brace_depth : ByteValues ] :
          ~(s.in_string /\ s.in_indented_string) }

InitCheckpoint ==
    /\ input = <<>>
    /\ pos = 1
    /\ scanner \in ByteSizedScanners
    /\ result = NoCall
    /\ buffer = ZeroBuffer
    /\ wire = [bytes |-> ZeroBuffer, pos |-> 1, emitted |-> NoTokens]
    /\ ops = [last |-> "create", loaded |-> <<>>]
    /\ emitted = NoTokens
    /\ call = Idle

SpecCheckpoint == InitCheckpoint /\ [][NextCodec]_vars

\* scanning a nested interpolation: a plain string opens an interpolation,
\* inside it (after an optional quote of an inner string) a second ${ opens,
\* and a text of quotes and braces follows
NestAlphabet == { DQ, "{", "}" }

NestInputs ==
    { <<DQ, "$", "{">> \o o \o <<"$", "{">> \o w :
          o \in { <<>>, <<DQ>> }, w \in Strings(NestAlphabet, MaxNest) }

InitNested == \E in \in NestInputs : InitWith(in)

SpecNested == InitNested /\ [][Next]_vars

\* scanning comments: a block comment opener and a text of slashes, stars and
\* letters, or a line comment and a short text with newlines, the line
\* comment also behind the opening quote of a string or behind a newline
BlockAlphabet == { "/", "*", "a" }

LineAlphabet == { "a", NL, "#" }

CommentInputs ==
    { <<"/", "*">> \o w : w \in Strings(BlockAlphabet, MaxComment) }
    \cup { o \o <<"#">> \o w :
          o \in { <<>>, <<DQ>>, <<NL>> }, w \in Strings(LineAlphabet, MaxLen) }

InitComment == \E in \in CommentInputs : InitWith(in)

SpecComment == InitComment /\ [][Next]_vars

\* a scan call during error recovery: the engine marks every kind admissible
ScanAll == Scan(TokenType)

NextRecovery == ScanCall \/ ScanAll \/ GrammarStep

\* scanning free-form inputs, the engine also calling with all kinds
\* admissible
SpecRecovery == Init /\ [][NextRecovery]_vars

----------------------------------------------------------------------------
(* One scan call followed statement by statement: every iteration of a    *)
(* loop of the call is a step of its own.  call.pc names the statement     *)
(* the call is at; call.L is the lexer, call.s the Scanner record the call *)
(* works on, call.valid the admissible set it was given.                   *)

\* the engine calls scan at its position
BeginScan ==
    /\ call.pc = "idle"
    /\ WithinCap(scanner)
    /\ pos <= Len(input) + 1
    /\ \E valid \in AdmissibleSets(scanner) :
           call' = [Idle EXCEPT !.pc = "whitespace",
                                !.valid = valid,
                                !.L = [cur |-> pos, start |-> pos, end |-> 0],
                                !.s = scanner]
    /\ ops' = [last |-> "call", loaded |-> <<>>]
    /\ UNCHANGED <<input, pos, scanner, result, buffer, wire, emitted>>

\* the call goes on at statement pc with lexer L
Goto(pc, L) == call' = [call EXCEPT !.pc = pc, !.L = L]

\* the call reaches a return with the outcome r of a rule
Return(r) ==
    call' = [call EXCEPT !.pc = "done", !.L = r.L, !.s = r.s,
                         !.produced = r.produced, !.symbol = r.symbol]

\* lines 206-211: one test of the whitespace loop
WhitespaceStep ==
    /\ call.pc = "whitespace"
    /\ IF /\ ~call.s.in_string
          /\ ~call.s.in_indented_string
          /\ lookahead(input, call.L) \in Whitespace
       THEN Goto("whitespace", skip(call.L))
       ELSE Goto("comment", call.L)

\* lines 214 and 133-146: the comment rule up to its loops
CommentStart ==
    /\ call.pc = "comment"
    /\ IF COMMENT \notin call.valid THEN Goto("string_start", call.L)
       ELSE IF lookahead(input, call.L) = "#"
       THEN Goto("line_comment", advance(call.L))
       ELSE IF lookahead(input, call.L) = "/"
       THEN LET L1 == advance(call.L) IN
            IF lookahead(input, L1) = "*"
            THEN call' = [call EXCEPT !.pc = "block_comment",
                                      !.L = advance(L1), !.depth = 1]
            ELSE Goto("string_start", L1)
       ELSE Goto("string_start", call.L)

\* lines 135-138: one test of the line comment loop
LineCommentStep ==
    /\ call.pc = "line_comment"
    /\ IF lookahead(input, call.L) # EOF /\ lookahead(input, call.L) # NL
       THEN Goto("line_comment", advance(call.L))
       ELSE Return(Produced(COMMENT, call.L, call.s))

\* a block comment loop that looks at a / without consuming it
BlockCommentStepNoAdvance ==
    /\ call.pc = "block_comment"
    /\ LET c == lookahead(input, call.L)
           L1 == advance(call.L)
       IN IF ~(call.depth > 0 /\ c # EOF)
          THEN IF call.depth = 0
               THEN Return(Produced(COMMENT, call.L, call.s))
               ELSE Goto("string_start", call.L)
          ELSE IF c = "/"
          THEN IF lookahead(input, L1) = "*"
               THEN call' = [call EXCEPT !.L = advance(L1),
                                         !.depth = call.depth + 1]
               ELSE Goto("block_comment", call.L)
          ELSE IF c = "*"
          THEN IF lookahead(input, L1) = "/"
               THEN call' = [call EXCEPT !.L = advance(L1),
                                         !.depth = call.depth - 1]
               ELSE Goto("block_comment", L1)
          ELSE Goto("block_comment", L1)

\* lines 147-164: one test of the block comment loop
BlockCommentStep ==
    /\ call.pc = "block_comment"
    /\ LET c == lookahead(input, call.L)
           L1 == advance(call.L)
       IN IF ~(call.depth > 0 /\ c # EOF)
          THEN IF call.depth = 0
               THEN Return(Produced(COMMENT, call.L, call.s))
               ELSE Goto("string_start", call.L)
          ELSE IF c = "/"
          THEN IF lookahead(input, L1) = "*"
               THEN call' = [call EXCEPT !.L = advance(L1),
                                         !.depth = call.depth + 1]
               ELSE Goto("block_comment", L1)
          ELSE IF c = "*"
          THEN IF lookahead(input, L1) = "/"
               THEN call' = [call EXCEPT !.L = advance(L1),
                                         !.depth = call.depth - 1]
               ELSE Goto("block_comment", L1)
          ELSE Goto("block_comment", L1)

\* lines 220-239: the string start rules
StringStart ==
    /\ call.pc = "string_start"
    /\ LET L == call.L
           s == call.s
       IN IF ~s.in_string /\ ~s.in_indented_string
          THEN IF STRING_START \in call.valid /\ lookahead(input, L) = DQ
               THEN Return(Produced(STRING_START, advance(L),
                                    [s EXCEPT !.in_string = TRUE]))
               ELSE IF /\ INDENTED_STRING_START \in call.valid
                       /\ lookahead(input, L) = SQ
               THEN IF lookahead(input, advance(L)) = SQ
                    THEN Return(Produced(INDENTED_STRING_START,
                                         advance(advance(L)),
                                         [s EXCEPT !.in_indented_string = TRUE]))
                    ELSE Goto("in_string", advance(L))
               ELSE Goto("in_string", L)
          ELSE Goto("in_string", L)

\* lines 242-261: string end and interpolation start inside a string
InString ==
    /\ call.pc = "in_string"
    /\ LET L == call.L
           s == call.s
           i == scan_interpolation_start(s, input, L, call.valid)
       IN IF ~s.in_string THEN Goto("in_indented_string", L)
          ELSE IF STRING_END \in call.valid /\ lookahead(input, L) = DQ
          THEN Return(Produced(STRING_END, advance(L),
                               [s EXCEPT !.in_string = FALSE]))
          ELSE IF i.produced THEN Return(i)
          ELSE Goto("escape", i.L)

\* lines 264 and 100-115: the escape rule up to its loop
EscapeStart ==
    /\ call.pc = "escape"
    /\ LET L == call.L
           L1 == advance(L)
           c == lookahead(input, L1)
       IN IF ESCAPE_SEQUENCE \notin call.valid \/ lookahead(input, L) # BSL
          THEN Goto("string_content", L)
          ELSE IF c \in SimpleEscape
          THEN Return(Produced(ESCAPE_SEQUENCE, advance(L1), call.s))
          ELSE IF c = "x"
          THEN call' = [call EXCEPT !.pc = "hex", !.L = advance(L1), !.i = 0]
          ELSE Goto("string_content", L1)

\* lines 117-126: one test of the hex digit loop
HexStep ==
    /\ call.pc = "hex"
    /\ IF call.i < 2
       THEN IF lookahead(input, call.L) \in HexDigit
            THEN call' = [call EXCEPT !.L = advance(call.L), !.i = call.i + 1]
            ELSE Goto("string_content", call.L)
       ELSE Return(Produced(ESCAPE_SEQUENCE, call.L, call.s))

\* lines 270 and 37-38: entering scan_string_content
StringContentStart ==
    /\ call.pc = "string_content"
    /\ IF STRING_CONTENT \in call.valid
       THEN call' = [call EXCEPT !.pc = "string_content_loop",
                                 !.L = mark_end(call.L),
                                 !.has_content = FALSE]
       ELSE Goto("in_indented_string", call.L)

\* lines 40-61: one test of the string content loop
StringContentStep ==
    /\ call.pc = "string_content_loop"
    /\ LET c == lookahead(input, call.L)
           L1 == advance(call.L)
           leave(L) == IF call.has_content
                       THEN Return(Produced(STRING_CONTENT, L, call.s))
                       ELSE Goto("in_indented_string", L)
       IN IF c = EOF \/ c = DQ \/ c = BSL THEN leave(call.L)
          ELSE IF c = "$" /\ lookahead(input, L1) = "{" THEN leave(L1)
          ELSE call' = [call EXCEPT !.L = mark_end(L1), !.has_content = TRUE]

\* lines 277-299: indented string end and interpolation start
InIndentedString ==
    /\ call.pc = "in_indented_string"
    /\ LET L == call.L
           s == call.s
           closing == INDENTED_STRING_END \in call.valid
                      /\ lookahead(input, L) = SQ
           L1 == IF closing THEN advance(L) ELSE L
           i == scan_interpolation_start(s, input, L1, call.valid)
       IN IF ~s.in_indented_string THEN Goto("interpolation_end", L)
          ELSE IF closing /\ lookahead(input, L1) = SQ
          THEN Return(Produced(INDENTED_STRING_END, advance(L1),
                               [s EXCEPT !.in_indented_string = FALSE]))
          ELSE IF i.produced THEN Return(i)
          ELSE Goto("indented_content", i.L)

\* lines 302 and 65-67: entering scan_indented_string_content
IndentedContentStart ==
    /\ call.pc = "indented_content"
    /\ IF INDENTED_STRING_CONTENT \in call.valid
       THEN call' = [call EXCEPT !.pc = "indented_content_loop",
                                 !.L = mark_end(call.L),
                                 !.has_content = FALSE,
                                 !.quote_count = 0]
       ELSE Goto("interpolation_end", call.L)

\* lines 69-96: one test of the indented string content loop
IndentedContentStep ==
    /\ call.pc = "indented_content_loop"
    /\ LET c == lookahead(input, call.L)
           L1 == advance(call.L)
           leave(L) == IF call.has_content
                       THEN Return(Produced(INDENTED_STRING_CONTENT, L, call.s))
                       ELSE Goto("interpolation_end", L)
       IN IF c = EOF THEN leave(call.L)
          ELSE IF c = SQ
          THEN IF call.quote_count + 1 = 2 THEN leave(L1)
               ELSE call' = [call EXCEPT !.L = mark_end(L1),
                                         !.has_content = TRUE,
                                         !.quote_count = call.quote_count + 1]
          ELSE IF c = "$" /\ lookahead(input, L1) = "{" THEN leave(L1)
          ELSE call' = [call EXCEPT !.L = mark_end(L1),
                                    !.has_content = TRUE,
                                    !.quote_count = 0]

\* lines 309-328: interpolation end, brace tracking and the final return
InterpolationEnd ==
    /\ call.pc = "interpolation_end"
    /\ Return(scan_interpolation_end(call.s, input, call.L, call.valid))

\* a statement of the call in progress
CallStep ==
    /\ \/ WhitespaceStep \/ CommentStart \/ LineCommentStep
       \/ BlockCommentStep \/ StringStart \/ InString \/ EscapeStart
       \/ HexStep \/ StringContentStart \/ StringContentStep
       \/ InIndentedString \/ IndentedContentStart \/ IndentedContentStep
       \/ InterpolationEnd
    /\ UNCHANGED <<input, pos, scanner, result, buffer, wire, ops, emitted>>

\* the call returns to the engine: the Scanner record is the one the call
\* worked on, a produced token moves the engine to its end
EndScan ==
    /\ call.pc = "done"
    /\ LET r == [produced |-> call.produced, symbol |-> call.symbol,
                 L |-> call.L, s |-> call.s]
       IN /\ scanner' = r.s
          /\ result' = Outcome(r, pos)
          /\ pos' = IF r.produced THEN TokenEnd(r.L) ELSE pos
          /\ emitted' = Count(emitted, Outcome(r, pos))
    /\ call' = Idle
    /\ ops' = [last |-> "scan", loaded |-> <<>>]
    /\ UNCHANGED <<input, buffer, wire>>

NextSteps == BeginScan \/ CallStep \/ EndScan \/ GrammarStep

\* an optional string opener and a short text, strings that begin with a
\* \x escape, and block comments
StepAlphabet == { DQ, SQ, "$", BSL, "a", NL, "#" }

StepInputs ==
    { o \o w : o \in Openers, w \in Strings(StepAlphabet, MaxLen) }
    \cup { <<DQ, BSL, "x">> \o w : w \in Strings({"a"}, MaxLen) }
    \cup { <<"/", "*">> \o w : w \in Strings({"/", "*"}, MaxLen) }

InitSteps == \E in \in StepInputs : InitWith(in)

\* scan calls followed statement by statement
SpecSteps == InitSteps /\ [][NextSteps]_vars

\* the processor goes on executing a call that has begun
SpecStepsFair == SpecSteps /\ WF_vars(CallStep)

\* the statement-level call returns what the call taken as a whole returns
StepsAgree ==
    call.pc = "done" =>
        LET r == tree_sitter_nix_external_scanner_scan(
                     scanner, input, pos, call.valid)
        IN /\ call.produced = r.produced
           /\ call.symbol = r.symbol
           /\ call.s = r.s
           /\ r.produced => call.L = r.L

----------------------------------------------------------------------------
(* Claims *)

\* the outcome of the scan call the engine makes in the current state with
\* the admissible set valid
Call(valid) ==
    tree_sitter_nix_external_scanner_scan(scanner, input, pos, valid)

\* C1: a scan call emits at most one token kind, and a produced token's kind
\* is a member of the admissible set supplied to that call; a declined call
\* names no kind.
C1_EmitsOnlyAdmissible ==
    \A valid \in AdmissibleSets(scanner) :
        LET r == Call(valid) IN
        /\ r.produced => r.symbol \in valid
        /\ ~r.produced => r.symbol = NoSymbol

\* C1 witness: a call has produced a token in a state where a call with
\* several admissible kinds produces one of them.
C1_Witness ==
    /\ ops.last = "scan"
    /\ result.produced
    /\ \E valid \in AdmissibleSets(scanner) :
           Cardinality(valid) > 1 /\ Call(valid).produced

\* the token of the last call covers position i of the input
Covers(i) == result.produced /\ result.start <= i /\ i < result.end

\* position k of a well-formed plain string lies inside an escape, the body
\* being read from position i
RECURSIVE InEscape(_, _, _)
InEscape(in, i, k) ==
    IF i > k \/ i > Len(in) THEN FALSE
    ELSE IF in[i] = BSL
         THEN LET n == IF i < Len(in) /\ in[i + 1] = "x" THEN 4 ELSE 2
              IN IF k < i + n THEN TRUE ELSE InEscape(in, i + n, k)
    ELSE InEscape(in, i + 1, k)

\* C2: over a well-formed plain string without interpolation, with at least
\* string-content, escape-sequence and string-end admissible, every scan call
\* up to the closing quote produces a token: string-start on the opening
\* quote, content or escape tokens inside the body, string-end on exactly
\* the closing quote; and a `$` of the body that is not part of an escape is
\* always inside a string-content token.
C2_PlainStringTokens ==
    ops.last = "scan" =>
        /\ result.produced
        /\ result.symbol \in PlainKinds
        /\ result.symbol = STRING_START =>
               result.start = 1 /\ result.end = 2
        /\ result.symbol \in {STRING_CONTENT, ESCAPE_SEQUENCE} =>
               /\ 2 <= result.start
               /\ result.start < result.end
               /\ result.end <= Len(input)
        /\ result.symbol = STRING_END =>
               /\ result.start = Len(input)
               /\ result.end = Len(input) + 1
               /\ ~scanner.in_string
        /\ \A i \in 1..Len(input) :
               (Covers(i) /\ input[i] = "$" /\ ~InEscape(input, 2, i))
                   => result.symbol = STRING_CONTENT

\* C3: over an indented string ''body'' (body not empty, no two consecutive
\* ' and no ${), with the indented-string kinds admissible, every scan call
\* produces a token: indented-string-start on the opening '', content tokens
\* inside the body that include neither quote of the terminating '', and
\* indented-string-end on the closing '', after which in_indented_string is
\* false.
C3_IndentedStringTokens ==
    ops.last = "scan" =>
        /\ result.produced
        /\ result.symbol \in IndentedKinds
        /\ result.symbol = INDENTED_STRING_START =>
               result.start = 1 /\ result.end = 3
        /\ result.symbol = INDENTED_STRING_CONTENT =>
               /\ 3 <= result.start
               /\ result.start < result.end
               /\ result.end <= Len(input) - 1
        /\ result.symbol = INDENTED_STRING_END =>
               /\ result.start = Len(input) - 1
               /\ result.end = Len(input) + 1
               /\ ~scanner.in_indented_string

\* a ' of the body of an indented string with content on both sides:
\* neither neighbour is a ', it is not followed by the ${ of an
\* interpolation, and the '' that closes the string comes later
LoneQuote(in, i) ==
    /\ 1 < i /\ i < Len(in)
    /\ in[i] = SQ
    /\ in[i - 1] # SQ
    /\ in[i + 1] # SQ
    /\ ~(in[i + 1] = "$" /\ i + 2 <= Len(in) /\ in[i + 2] = "{")
    /\ \E j \in (i + 2)..(Len(in) - 1) : in[j] = SQ /\ in[j + 1] = SQ

\* C4: inside an indented string a lone ' with content on both sides is
\* content, never a terminator.  For every call made inside an indented
\* string and every admissible set: a token that covers the ' is an
\* indented-string-content token (or a comment that began before it), never
\* indented-string-end, and in_indented_string stays true; with content
\* admissible a call positioned at the character before the ' produces a
\* content token that runs on over the '; and no content token stops right
\* before it.
C4_LoneQuoteIsContent ==
    scanner.in_indented_string =>
        \A valid \in AdmissibleSets(scanner) :
            LET r == Call(valid)
                o == Outcome(r, pos)
            IN \A i \in 1..Len(input) :
                   LoneQuote(input, i) =>
                       /\ (o.produced /\ o.start <= i /\ i < o.end) =>
                              /\ o.symbol \in {INDENTED_STRING_CONTENT, COMMENT}
                              /\ r.s.in_indented_string
                       /\ ( /\ pos = i - 1
                            /\ INDENTED_STRING_CONTENT \in valid
                            /\ ~(COMMENT \in valid /\ input[pos] = "#") ) =>
                              /\ o.produced
                              /\ o.symbol = INDENTED_STRING_CONTENT
                              /\ o.start = pos
                              /\ o.end > i
                       /\ (o.produced /\ o.symbol = INDENTED_STRING_CONTENT) =>
                              o.end # i

\* C4 witness: a content token has been produced that holds a lone ' strictly
\* inside it, and the scanner is still inside the indented string.
C4_Witness ==
    /\ ops.last = "scan"
    /\ result.symbol = INDENTED_STRING_CONTENT
    /\ scanner.in_indented_string
    /\ \E i \in 1..Len(input) :
           /\ LoneQuote(input, i)
           /\ Covers(i - 1)
           /\ Covers(i + 1)

\* the position of the } that closes the interpolation whose body starts at
\* i with d braces open, 0 when there is none
RECURSIVE MatchClose(_, _, _)
MatchClose(in, i, d) ==
    IF i > Len(in) THEN 0
    ELSE IF in[i] = "{" THEN MatchClose(in, i + 1, d + 1)
    ELSE IF in[i] = "}"
         THEN IF d = 1 THEN i ELSE MatchClose(in, i + 1, d - 1)
    ELSE MatchClose(in, i + 1, d)

\* C5: after "${ the engine's scan calls over a body with balanced braces
\* (interpolation-end admissible, declined calls retried or handed to the
\* grammar) emit interpolation-end exactly at the } matching the ${ and at
\* no earlier }: the token is that one }, brace_depth is then 0 and
\* interpolation_depth is back from 1 to 0, and the engine does not get past
\* that } with the interpolation still open.
C5_ClosesAtMatchingBrace ==
    LET m == MatchClose(input, 4, 1) IN
    m # 0 =>
        /\ (ops.last = "scan" /\ result.symbol = INTERPOLATION_END) =>
               /\ result.start = m
               /\ result.end = m + 1
               /\ scanner.brace_depth = 0
               /\ scanner.interpolation_depth = 0
        /\ pos > m => scanner.interpolation_depth = 0

\* C6: whenever a scan call emits interpolation-start, the token is exactly
\* the two characters ${, interpolation_depth is one more than before the
\* call and brace_depth is 1.
C6_InterpolationStartSpan ==
    \A valid \in AdmissibleSets(scanner) :
        LET r == Call(valid)
            o == Outcome(r, pos)
        IN (o.produced /\ o.symbol = INTERPOLATION_START) =>
               /\ o.end = o.start + 2
               /\ input[o.start] = "$"
               /\ input[o.start + 1] = "{"
               /\ r.s.interpolation_depth = scanner.interpolation_depth + 1
               /\ r.s.brace_depth = 1

\* a recognized escape begins at position p: \ and one of n r t \ " ' $, or
\* \x and two hexadecimal digits
SimpleEscapeAt(in, p) ==
    /\ p + 1 <= Len(in)
    /\ in[p] = BSL
    /\ in[p + 1] \in SimpleEscape

HexEscapeAt(in, p) ==
    /\ p + 3 <= Len(in)
    /\ in[p] = BSL
    /\ in[p + 1] = "x"
    /\ in[p + 2] \in HexDigit
    /\ in[p + 3] \in HexDigit

\* C7: every escape-sequence token spans exactly the two characters of a
\* simple escape or the four characters of a \xHH escape; no escape-sequence
\* token is emitted for anything else.
C7_EscapeTokenSpan ==
    (ops.last = "scan" /\ result.symbol = ESCAPE_SEQUENCE) =>
        \/ result.end = result.start + 2 /\ SimpleEscapeAt(input, result.start)
        \/ result.end = result.start + 4 /\ HexEscapeAt(input, result.start)

\* C8: inside a plain string a scan call positioned at a \ that does not
\* begin a recognized escape produces no token, whatever is admissible.
C8_InvalidEscapeDeclined ==
    ( /\ scanner.in_string
      /\ pos <= Len(input)
      /\ input[pos] = BSL
      /\ ~SimpleEscapeAt(input, pos)
      /\ ~HexEscapeAt(input, pos) )
        => \A valid \in AdmissibleSets(scanner) : ~Call(valid).produced

\* C9: deserialize with fewer than 5 bytes leaves the Scanner record
\* all-zero/all-false, whatever it was before the call.
C9_ShortDeserializeZeroes ==
    (ops.last = "deserialize" /\ Len(ops.loaded) < SerializedLength)
        => scanner = tree_sitter_nix_external_scanner_create

\* C10: serialize writes exactly 5 bytes in the order in_string,
\* in_indented_string, interpolation_depth, paren_depth, brace_depth, and
\* serializing what deserialize loaded from 5 in-range bytes (flags 0 or 1,
\* counters non-negative as a char, 0..127) gives those bytes back.
InRange(bytes) ==
    /\ bytes[1] \in {0, 1}
    /\ bytes[2] \in {0, 1}
    /\ \A i \in 3..5 : bytes[i] \in 0..127

C10_SerializeRoundTrip ==
    ops.last = "serialize" =>
        /\ Len(buffer) = SerializedLength
        /\ buffer[1] = BoolToChar(scanner.in_string)
        /\ buffer[2] = BoolToChar(scanner.in_indented_string)
        /\ buffer[3] = IntToChar(scanner.interpolation_depth)
        /\ buffer[4] = IntToChar(scanner.paren_depth)
        /\ buffer[5] = IntToChar(scanner.brace_depth)
        /\ (Len(ops.loaded) = SerializedLength /\ InRange(ops.loaded))
               => buffer = ops.loaded

\* C10 witness: a checkpoint with distinct in-range counters was loaded and
\* serialized again.
C10_Witness ==
    /\ ops.last = "serialize"
    /\ Len(ops.loaded) = SerializedLength
    /\ InRange(ops.loaded)
    /\ ops.loaded[1] = 1
    /\ ops.loaded[3] # ops.loaded[4]
    /\ ops.loaded[4] # ops.loaded[5]
    /\ ops.loaded[4] > 0
    /\ buffer = ops.loaded

\* C11: in every state reached from the fresh record by scan calls,
\* in_string and in_indented_string are not both true.
C11_FlagsExclusive ==
    ~(scanner.in_string /\ scanner.in_indented_string)

\* C11 witness: a scan call has left the scanner inside a plain string with
\* the opener '' of an indented string next in the input.
C11_Witness ==
    /\ ops.last = "scan"
    /\ scanner.in_string
    /\ pos + 1 <= Len(input)
    /\ input[pos] = SQ
    /\ input[pos + 1] = SQ

\* C12: in every state reached from the fresh record by scan calls,
\* brace_depth is at least 0.
C12_BraceDepthNonNegative ==
    scanner.brace_depth >= 0

\* C13: over a nested interpolation (a second interpolation-start emitted
\* while the first is open), the call at the inner interpolation's closing }
\* with interpolation-end admissible emits interpolation-end and leaves one
\* interpolation open; after that the call at the outer interpolation's own
\* closing } emits interpolation-end too, with interpolation_depth and
\* brace_depth back at 0.
C13_NestedInterpolationsClose ==
    LET k == IF Len(input) >= 4 /\ input[4] = DQ THEN 5 ELSE 4
        inner == MatchClose(input, k + 2, 1)
        outer == MatchClose(input, 4, 1)
        r == Call({INTERPOLATION_END})
    IN /\ ( /\ emitted = [starts |-> 2, ends |-> 0]
             /\ scanner.interpolation_depth = 2
             /\ inner # 0
             /\ pos = inner ) =>
                /\ r.produced
                /\ r.symbol = INTERPOLATION_END
                /\ r.s.interpolation_depth = 1
       /\ ( /\ emitted = [starts |-> 2, ends |-> 1]
             /\ scanner.interpolation_depth = 1
             /\ outer # 0
             /\ pos = outer ) =>
                /\ r.produced
                /\ r.symbol = INTERPOLATION_END
                /\ r.s.interpolation_depth = 0
                /\ r.s.brace_depth = 0

\* C14: a scan call that produces no token leaves the Scanner record as it
\* was, so the same call made again at the same position with the same
\* admissible set has the same outcome and the same resulting record.
C14_DeclinedCallKeepsState ==
    \A valid \in AdmissibleSets(scanner) :
        LET r == Call(valid) IN
        ~r.produced =>
            /\ r.s = scanner
            /\ LET again == tree_sitter_nix_external_scanner_scan(
                                r.s, input, pos, valid)
               IN /\ again.produced = r.produced
                  /\ again.s = r.s

\* reference: where the line comment whose # is at p ends, the position of
\* the next newline or the end of input
RECURSIVE LineCommentEnd(_, _)
LineCommentEnd(in, p) ==
    IF p > Len(in) \/ in[p] = NL THEN p
    ELSE LineCommentEnd(in, p + 1)

\* reference: reading from i with depth d comments open, the position just
\* after the */ that closes the outermost one, 0 when the input ends first
RECURSIVE BlockCommentEnd(_, _, _)
BlockCommentEnd(in, i, d) ==
    IF d = 0 THEN i
    ELSE IF i > Len(in) THEN 0
    ELSE IF i < Len(in) /\ in[i] = "/" /\ in[i + 1] = "*"
         THEN BlockCommentEnd(in, i + 2, d + 1)
    ELSE IF i < Len(in) /\ in[i] = "*" /\ in[i + 1] = "/"
         THEN BlockCommentEnd(in, i + 2, d - 1)
    ELSE BlockCommentEnd(in, i + 1, d)

\* where the token of a call at p starts: outside strings behind the
\* whitespace at p
RECURSIVE FirstNonSpace(_, _)
FirstNonSpace(in, p) ==
    IF p <= Len(in) /\ in[p] \in Whitespace THEN FirstNonSpace(in, p + 1)
    ELSE p

\* C15: with comment admissible a call at a # emits a comment token running
\* up to, not including, the next newline or to the end of input; a call at
\* a /* emits a comment token ending right after the */ that brings the
\* nesting depth back to zero, nested /* */ pairs counted, and produces
\* nothing when the input ends before that.
C15_CommentMatchesReference ==
    \A valid \in AdmissibleSets(scanner) :
        COMMENT \in valid =>
            LET r == Call(valid)
                o == Outcome(r, pos)
                p == IF scanner.in_string \/ scanner.in_indented_string
                     THEN pos ELSE FirstNonSpace(input, pos)
                e == BlockCommentEnd(input, p + 2, 1)
            IN /\ (p <= Len(input) /\ input[p] = "#") =>
                      /\ o.produced
                      /\ o.symbol = COMMENT
                      /\ o.start = p
                      /\ o.end = LineCommentEnd(input, p + 1)
               /\ (p < Len(input) /\ input[p] = "/" /\ input[p + 1] = "*") =>
                      IF e # 0
                      THEN /\ o.produced
                           /\ o.symbol = COMMENT
                           /\ o.start = p
                           /\ o.end = e
                      ELSE ~o.produced

\* C15 witness: a call has emitted a block comment token that holds a nested
\* /* */ pair.
C15_Witness ==
    /\ ops.last = "scan"
    /\ result.symbol = COMMENT
    /\ input[result.start] = "/"
    /\ \E i \in (result.start + 2)..(result.end - 6) :
           /\ input[i] = "/" /\ input[i + 1] = "*"
           /\ BlockCommentEnd(input, i + 2, 1) = result.end - 2

\* position i of the input is where string content stops: a quote, a
\* backslash, or the $ of a ${
ContentStop(in, i) ==
    \/ in[i] = DQ
    \/ in[i] = BSL
    \/ in[i] = "$" /\ i < Len(in) /\ in[i + 1] = "{"

\* C16: a string-content token emitted inside a plain string is not empty,
\* holds no ", no \ and no ${, and runs up to the first of these or to the
\* end of input.
C16_StringContentRun ==
    (ops.last = "scan" /\ result.symbol = STRING_CONTENT) =>
        /\ result.end > result.start
        /\ \A i \in result.start..(result.end - 1) : ~ContentStop(input, i)
        /\ result.end <= Len(input) => ContentStop(input, result.end)

\* the token of the last call is exactly the text w
TokenIs(w) ==
    /\ result.end = result.start + Len(w)
    /\ result.end <= Len(input) + 1
    /\ SubSeq(input, result.start, result.end - 1) = w

\* C17: every emitted string-start or string-end token spans exactly ",
\* every indented-string-start or indented-string-end token exactly '', and
\* every interpolation-end token exactly }, whatever the call read before
\* the rule that produced the token.
C17_DelimiterTokenSpan ==
    ops.last = "scan" =>
        /\ result.symbol \in {STRING_START, STRING_END} => TokenIs(<<DQ>>)
        /\ result.symbol \in {INDENTED_STRING_START, INDENTED_STRING_END}
               => TokenIs(<<SQ, SQ>>)
        /\ result.symbol = INTERPOLATION_END => TokenIs(<<"}">>)

\* C18: interpolation_depth is the number of interpolation-start tokens
\* emitted so far minus the number of interpolation-end tokens emitted so
\* far, hence at least 0; and a scan call changes it only by emitting one of
\* the two: by +1 with an interpolation-start, by -1 with an
\* interpolation-end.
C18_DepthCountsTokens ==
    /\ scanner.interpolation_depth = emitted.starts - emitted.ends
    /\ scanner.interpolation_depth >= 0
    /\ \A valid \in AdmissibleSets(scanner) :
           LET r == Call(valid) IN
           r.s.interpolation_depth =
               scanner.interpolation_depth
               + (IF r.produced /\ r.symbol = INTERPOLATION_START THEN 1 ELSE 0)
               - (IF r.produced /\ r.symbol = INTERPOLATION_END THEN 1 ELSE 0)

\* C18 witness: two interpolation-starts and one interpolation-end have been
\* emitted, the last call having emitted the interpolation-end.
C18_Witness ==
    /\ ops.last = "scan"
    /\ result.symbol = INTERPOLATION_END
    /\ emitted = [starts |-> 2, ends |-> 1]
    /\ scanner.interpolation_depth = 1

\* the statements of the call that are loop tests
LoopStatements ==
    { "whitespace", "line_comment", "block_comment", "hex",
      "string_content_loop", "indented_content_loop" }

\* a loop test that stays in its loop has consumed a character
LoopProgress ==
    (call.pc \in LoopStatements /\ call'.pc = call.pc) =>
        /\ call'.L.cur > call.L.cur
        /\ call.L.cur <= Len(input)

\* C19: every scan call terminates: a loop test either consumes a character
\* of the finite input or leaves the loop (at end of input it leaves), and a
\* call that has begun reaches its return.
C19_ScanTerminates ==
    /\ [][LoopProgress]_vars
    /\ (call.pc # "idle") ~> (call.pc = "done")

\* C19 witness: a call has reached its return at the end of the input after
\* a loop of it went round at least three times.
C19_Witness ==
    /\ call.pc = "done"
    /\ call.L.cur = Len(input) + 1
    /\ call.L.cur >= pos + 3

\* the counters of the Scanner record s each fit in one byte
CountersFitByte(s) ==
    /\ s.interpolation_depth \in 0..255
    /\ s.paren_depth \in 0..255
    /\ s.brace_depth \in 0..255

\* a deserialize of all 5 bytes of the checkpoint just taken of the current
\* Scanner record
RestoresOwnCheckpoint ==
    /\ ops'.last = "deserialize"
    /\ Len(ops'.loaded) = SerializedLength
    /\ wire.bytes = tree_sitter_nix_external_scanner_serialize(scanner)

\* C20: for every Scanner record whose counters lie in 0..255, deserialize
\* applied to the 5 bytes serialize wrote for it yields the same record in
\* all five fields, the bytes being written and read as C char.
C20_CheckpointRestoresState ==
    [][(RestoresOwnCheckpoint /\ CountersFitByte(scanner))
           => scanner' = scanner]_vars

====
